---- MODULE Spec2Model ----
(***************************************************************************)
(* KEN Library App (src/app.py): the SQLite store (books, copies, members, *)
(* locations, transactions) and the Streamlit handlers that mutate it.     *)
(* Every handler opens its own connection and commits one statement, so    *)
(* each SQL statement is one atomic step and the reads a script run makes  *)
(* before its write are a separate, earlier step of the same session.      *)
(*                                                                         *)
(* Text values are sequences of one-character strings, so that strip() and *)
(* case folding are computed, not assumed.  SQL NULL is the empty tuple,   *)
(* a date is the one-element tuple <<day>>.                                *)
(***************************************************************************)
EXTENDS Integers, Sequences, FiniteSets, TLC

VARIABLES books, copies, members, locations, transactions,
          idx_books_title_author, today, pc, pend, msg

vars == <<books, copies, members, locations, transactions,
          idx_books_title_author, today, pc, pend, msg>>

\* ------------------------------ bounds ------------------------------
MaxBooks == 2
MaxCircBooks == 1
MaxCopies == 1
MaxTxns == 2
MaxDay == 2
MaxBatch == 2
MaxLocations == 2

\* two browser sessions, as in the concurrent scenarios
Sessions == {"s1", "s2"}

\* ------------------------------ values ------------------------------
NULL == <<>>

\* what the handler shows when it ends: st.success / the raised exception, and
\* the number the message quotes
Msg(text, n) == [text |-> text, n |-> n]

Date(d) == <<d>>

RECURSIVE LStrip(_)
LStrip(s) == IF s # <<>> /\ Head(s) = " " THEN LStrip(Tail(s)) ELSE s

RECURSIVE RStrip(_)
RStrip(s) ==
    IF s # <<>> /\ s[Len(s)] = " " THEN RStrip(SubSeq(s, 1, Len(s) - 1)) ELSE s

\* str.strip()
Strip(s) == RStrip(LStrip(s))

LowerChar(c) ==
    IF c = "A" THEN "a" ELSE IF c = "B" THEN "b" ELSE IF c = "C" THEN "c"
    ELSE IF c = "K" THEN "k" ELSE c

\* case folding used by the case-insensitive comparisons of the specification
Lower(s) == [i \in 1..Len(s) |-> LowerChar(s[i])]

\* the text values the forms are given in the circulation scenarios
CircTitles == {<<"a">>}
CircAuthors == {<<"x">>}
CircGenres == {<<"g">>}
MemberNames == {<<"m">>}
Accessions == {<<"1">>}


\* ------------------------------ locations ------------------------------
\* the compartments seeded at start-up: ensure_default_locations(45) in the
\* source, scaled down here
NCompartments == 3

Digit(d) == <<"0", "1", "2", "3", "4", "5", "6", "7", "8", "9">>[d + 1]

\* str(i) for 0 <= i <= 99
IntStr(i) == IF i < 10 THEN <<Digit(i)>> ELSE <<Digit(i \div 10), Digit(i % 10)>>

\* f"Compartment {i}"
CompartmentName(i) == <<"C", " ">> \o IntStr(i)

\* f"Shelf compartment #{i}"
CompartmentDesc(i) == <<"S", "#">> \o IntStr(i)

LocationNames(locs) == {locs[i].name : i \in DOMAIN locs}

\* a variant that inserts although the name is already stored
InsertLocation_Always(locs, name, desc) ==
    Append(locs, [name |-> name, description |-> desc])

\* INSERT OR IGNORE INTO locations(name, description): name is UNIQUE (binary)
InsertLocation(locs, name, desc) ==
    IF name \in LocationNames(locs) THEN locs
    ELSE Append(locs, [name |-> name, description |-> desc])

RECURSIVE SeedFrom(_, _, _)
SeedFrom(locs, i, n) ==
    IF i > n THEN locs
    ELSE SeedFrom(InsertLocation(locs, CompartmentName(i), CompartmentDesc(i)), i + 1, n)

\* the locations table after ensure_default_locations(n)
ensure_default_locations(locs, n) == SeedFrom(locs, 1, n)


\* ------------------------------ initial state ------------------------------
\* what a script run holds between its reads and its write: the resolved
\* selections of an Issue (free: the title had no open entry when they were
\* read) or the transaction picked for a Return
Pend(b, m, due, free, ret) ==
    [book_id |-> b, member_id |-> m, due_date |-> due, free |-> free, ret_id |-> ret]

NoPend == Pend(0, 0, NULL, FALSE, 0)

Init ==
    /\ books = <<>>
    /\ copies = <<>>
    /\ members = <<>>
    /\ locations = ensure_default_locations(<<>>, NCompartments)
    /\ transactions = <<>>
    /\ idx_books_title_author = FALSE
    /\ today = 1
    /\ pc = [s \in Sessions |-> "idle"]
    /\ pend = [s \in Sessions |-> NoPend]
    /\ msg = Msg("none", 0)

\* ------------------------------ books ------------------------------
BookRow(title, author, genre, loc) ==
    [title |-> title, author |-> author, genre |-> genre, default_location |-> loc]

\* does the unique index idx_books_title_author reject this pair?
PairExists(bs, title, author) ==
    \E i \in DOMAIN bs : bs[i].title = title /\ bs[i].author = author

\* a variant in which the unique index does not constrain the INSERT of Add Book
AddBook_Unchecked(s, title, author, genre, loc) ==
    /\ pc[s] = "idle"
    /\ Len(books) < MaxBooks
    /\ Strip(title) # <<>>
    /\ books' = Append(books, BookRow(Strip(title), Strip(author), Strip(genre), loc))
    /\ msg' = Msg("Book added.", 0)
    /\ UNCHANGED <<copies, members, locations, transactions, idx_books_title_author,
                   today, pc, pend>>

\* page_books: the "Add Book" button
AddBook(s, title, author, genre, loc) ==
    /\ pc[s] = "idle"
    /\ Len(books) < MaxBooks
    /\ Strip(title) # <<>>
    /\ IF idx_books_title_author /\ PairExists(books, Strip(title), Strip(author))
       THEN /\ msg' = Msg("IntegrityError", 0)
            /\ UNCHANGED books
       ELSE /\ books' = Append(books, BookRow(Strip(title), Strip(author), Strip(genre), loc))
            /\ msg' = Msg("Book added.", 0)
    /\ UNCHANGED <<copies, members, locations, transactions, idx_books_title_author,
                   today, pc, pend>>

\* ------------------------------ CSV import ------------------------------
\* a CSV cell as pandas hands it to str(): an empty cell is NaN, hence "nan"
CellStr(cell) == IF cell = <<>> THEN <<"n", "a", "n">> ELSE cell

\* str(r.get(col, "")).strip()
Field(cell) == Strip(CellStr(cell))

\* the tuples page_import_export builds from the rows of the uploaded file
ImportRows(batch) ==
    [i \in DOMAIN batch |->
        BookRow(Field(batch[i].title), Field(batch[i].author),
                Field(batch[i].genre), Field(batch[i].default_location))]

\* would CREATE UNIQUE INDEX ... ON books(title, author) fail on this table?
HasDuplicatePairs(bs) ==
    \E i, j \in DOMAIN bs : i < j /\ bs[i].title = bs[j].title /\ bs[i].author = bs[j].author

\* a variant that inserts without the OR IGNORE conflict clause taking effect
InsertOrIgnore_Always(bs, row) == Append(bs, row)

\* INSERT OR IGNORE INTO books(...) under the unique index on (title, author)
InsertOrIgnore(bs, row) ==
    IF PairExists(bs, row.title, row.author) THEN bs ELSE Append(bs, row)

\* cur.executemany: the rows in input order
RECURSIVE InsertOrIgnoreAll(_, _)
InsertOrIgnoreAll(bs, rows) ==
    IF rows = <<>> THEN bs
    ELSE InsertOrIgnoreAll(InsertOrIgnore(bs, Head(rows)), Tail(rows))

\* the index cannot be created: sqlite3.IntegrityError leaves the with-block
ImportFails(bs, idx) == ~idx /\ HasDuplicatePairs(bs)

\* the books table after the import of a batch
ImportBooks(bs, idx, batch) ==
    IF ImportFails(bs, idx) THEN bs ELSE InsertOrIgnoreAll(bs, ImportRows(batch))

\* whether idx_books_title_author exists after the import
ImportIndex(bs, idx) == IF ImportFails(bs, idx) THEN idx ELSE TRUE

\* a variant in which the import replaces a stored (title, author) pair
\* (INSERT OR REPLACE) and ON DELETE CASCADE removes the replaced book's rows
ImportTxns_Cascade(txns, bs, rows) ==
    SelectSeq(txns, LAMBDA t :
        ~\E k \in DOMAIN rows :
            /\ t.book_id \in DOMAIN bs
            /\ bs[t.book_id].title = rows[k].title
            /\ bs[t.book_id].author = rows[k].author)

\* the transactions table after the import: CREATE UNIQUE INDEX and INSERT OR
\* IGNORE INTO books delete no book, so the cascade on book_id never runs
ImportTxns(txns, bs, rows) == txns

\* page_import_export: a CSV file with the four needed columns is uploaded
Import(s, batch) ==
    /\ pc[s] = "idle"
    /\ Len(ImportBooks(books, idx_books_title_author, batch)) <= MaxBooks
    /\ books' = ImportBooks(books, idx_books_title_author, batch)
    /\ idx_books_title_author' = ImportIndex(books, idx_books_title_author)
    /\ msg' = IF ImportFails(books, idx_books_title_author)
              THEN Msg("IntegrityError", 0)
              ELSE Msg("Imported", Len(ImportRows(batch)))
    /\ transactions' = ImportTxns(transactions, books, ImportRows(batch))
    /\ UNCHANGED <<copies, members, locations, today, pc, pend>>

\* page_import_export: the executemany raises sqlite3.OperationalError (the
\* database is locked by another connection, the disk is full). CREATE UNIQUE
\* INDEX ran before any transaction was open and is already committed; leaving
\* the with-block rolls back the rows inserted so far.
ImportInterrupted(s, batch) ==
    /\ pc[s] = "idle"
    /\ batch # <<>>
    /\ ~ImportFails(books, idx_books_title_author)
    /\ books' = books
    /\ idx_books_title_author' = TRUE
    /\ msg' = Msg("OperationalError", 0)
    /\ UNCHANGED <<copies, members, locations, transactions, today, pc, pend>>

\* ------------------------------ locations page, repair ------------------------------
\* page_locations: the "Add Location" button (the message is shown whether or
\* not the row was ignored)
AddLocation(s, name, desc) ==
    /\ pc[s] = "idle"
    /\ Len(locations) < NCompartments + MaxLocations
    /\ Strip(name) # <<>>
    /\ locations' = InsertLocation(locations, Strip(name), Strip(desc))
    /\ msg' = Msg("Location added.", 0)
    /\ UNCHANGED <<books, copies, members, transactions, idx_books_title_author,
                   today, pc, pend>>

\* page_import_export: "Run repair"; init_db and migrate_locations create
\* nothing that exists, ensure_default_locations seeds again (as every start does)
Repair(s) ==
    /\ pc[s] = "idle"
    /\ locations' = ensure_default_locations(locations, NCompartments)
    /\ msg' = Msg("Repair done.", 0)
    /\ UNCHANGED <<books, copies, members, transactions, idx_books_title_author,
                   today, pc, pend>>

\* ------------------------------ members, copies ------------------------------
\* the Members page is referenced by page_issue_return but is not in src/
AddMember(s, name) ==
    /\ pc[s] = "idle"
    /\ Strip(name) # <<>>
    /\ members' = Append(members, [name |-> Strip(name)])
    /\ msg' = Msg("Member added.", 0)
    /\ UNCHANGED <<books, copies, locations, transactions, idx_books_title_author,
                   today, pc, pend>>

\* page_copies: the "Add Copy" button; selectbox_book yields the id of a stored book
AddCopy(s, book_id, acc, loc) ==
    /\ pc[s] = "idle"
    /\ Len(copies) < MaxCopies
    /\ book_id \in DOMAIN books
    /\ copies' = Append(copies, [book_id |-> book_id, accession_no |-> Strip(acc),
                                 status |-> "available", current_location |-> loc])
    /\ msg' = Msg("Copy added", 0)
    /\ UNCHANGED <<books, members, locations, transactions, idx_books_title_author,
                   today, pc, pend>>

\* ------------------------------ issue / return ------------------------------
IsOpen(t) == t.return_date = NULL

OpenOfBook(txns, b) == {i \in DOMAIN txns : txns[i].book_id = b /\ IsOpen(txns[i])}

\* the Txn_ID column of open_df: open rows joined with their book and member
OpenIds(txns) ==
    {i \in DOMAIN txns : /\ IsOpen(txns[i])
                         /\ txns[i].book_id \in DOMAIN books
                         /\ txns[i].member_id \in DOMAIN members}

\* a variant that resolves the label to the row's position in the dataframe
\* (0-based) instead of its id
book_label_to_id_Index(label) == {i - 1 : i \in {j \in DOMAIN books : books[j].title = label}}

\* dict(zip(books["title"], books["id"])): an id of a row carrying the label
\* (which one of several equal titles comes last in ORDER BY title is unspecified)
book_label_to_id(label) == {i \in DOMAIN books : books[i].title = label}

member_label_to_id(label) == {i \in DOMAIN members : members[i].name = label}

\* page_issue_return up to the "Issue" button: the script has read books and
\* members and resolved the two selections
ClickIssue(s, book_label, member_label, due) ==
    /\ pc[s] = "idle"
    /\ books # <<>>
    /\ members # <<>>
    /\ \E b \in book_label_to_id(book_label), m \in member_label_to_id(member_label) :
          pend' = [pend EXCEPT ![s] =
                      Pend(b, m, due, OpenOfBook(transactions, b) = {}, 0)]
    /\ pc' = [pc EXCEPT ![s] = "issue"]
    /\ UNCHANGED <<books, copies, members, locations, transactions,
                   idx_books_title_author, today, msg>>

IssueRow(p) ==
    [book_id |-> p.book_id, member_id |-> p.member_id, copy_id |-> NULL,
     issue_date |-> Date(today), due_date |-> p.due_date, return_date |-> NULL]

\* the table after the INSERT INTO transactions of the "Issue" button
IssueTxns(txns, p) == Append(txns, IssueRow(p))

\* a variant that marks the copies of the issued book 'issued' while the ledger
\* row still carries no copy_id
IssueCopies_FlipStatus(cs, p) ==
    [c \in DOMAIN cs |->
        IF cs[c].book_id = p.book_id THEN [cs[c] EXCEPT !.status = "issued"] ELSE cs[c]]

\* the copies table after the "Issue" button: the handler has no statement on copies
IssueCopies(cs, p) == cs

\* run_sql(INSERT INTO transactions ...) and st.success; the rest of the run only reads
IssueInsert(s) ==
    /\ pc[s] = "issue"
    /\ Len(transactions) < MaxTxns
    /\ transactions' = IssueTxns(transactions, pend[s])
    /\ copies' = IssueCopies(copies, pend[s])
    /\ msg' = Msg("Issued", 0)
    /\ pc' = [pc EXCEPT ![s] = "idle"]
    /\ pend' = [pend EXCEPT ![s] = NoPend]
    /\ UNCHANGED <<books, members, locations, idx_books_title_author, today>>

\* page_issue_return up to the "Mark returned" button: the script has fetched
\* the open issues and the selectbox holds one of their ids
ClickReturn(s, ret_id) ==
    /\ pc[s] = "idle"
    /\ books # <<>>
    /\ members # <<>>
    /\ ret_id \in OpenIds(transactions)
    /\ pend' = [pend EXCEPT ![s] = Pend(0, 0, NULL, FALSE, ret_id)]
    /\ pc' = [pc EXCEPT ![s] = "return"]
    /\ UNCHANGED <<books, copies, members, locations, transactions,
                   idx_books_title_author, today, msg>>

\* a variant whose WHERE clause names the book of the row instead of the row
ReturnTxns_ByBook(txns, ret_id) ==
    [i \in DOMAIN txns |->
        IF txns[i].book_id = txns[ret_id].book_id
        THEN [txns[i] EXCEPT !.return_date = Date(today)] ELSE txns[i]]

\* the table after UPDATE transactions SET return_date = DATE('now') WHERE id = ?
ReturnTxns(txns, ret_id) ==
    [i \in DOMAIN txns |->
        IF i = ret_id THEN [txns[i] EXCEPT !.return_date = Date(today)] ELSE txns[i]]

\* the copies table after "Mark returned": the handler has no statement on copies
ReturnCopies(cs, ret_id) == cs

\* run_sql(UPDATE transactions ...) of the "Mark returned" button and st.success
MarkReturned(s) ==
    /\ pc[s] = "return"
    /\ transactions' = ReturnTxns(transactions, pend[s].ret_id)
    /\ copies' = ReturnCopies(copies, pend[s].ret_id)
    /\ msg' = Msg("Marked as returned", 0)
    /\ pc' = [pc EXCEPT ![s] = "idle"]
    /\ pend' = [pend EXCEPT ![s] = NoPend]
    /\ UNCHANGED <<books, members, locations, idx_books_title_author, today>>

\* DATE('now') moves on
Tick ==
    /\ today < MaxDay
    /\ today' = today + 1
    /\ UNCHANGED <<books, copies, members, locations, transactions,
                   idx_books_title_author, pc, pend, msg>>

\* st.date_input("Due date (optional)", value=None) left at its default
DueChoices == {NULL}

\* the circulation scenarios: up to MaxCircBooks books of one title, one
\* member, copies, and two sessions issuing and returning while the date advances
Next ==
    \/ \E s \in Sessions, t \in CircTitles, a \in CircAuthors, g \in CircGenres :
          Len(books) < MaxCircBooks /\ AddBook(s, t, a, g, <<>>)
    \/ \E s \in Sessions, n \in MemberNames : members = <<>> /\ AddMember(s, n)
    \/ \E s \in Sessions, b \in DOMAIN books, a \in Accessions : AddCopy(s, b, a, <<>>)
    \/ \E s \in Sessions, t \in CircTitles, n \in MemberNames, d \in DueChoices :
          ClickIssue(s, t, n, d)
    \/ \E s \in Sessions : IssueInsert(s)
    \/ \E s \in Sessions, i \in DOMAIN transactions : ClickReturn(s, i)
    \/ \E s \in Sessions : MarkReturned(s)
    \/ Tick

Spec == Init /\ [][Next]_vars

\* ------------------------------ catalogue scenarios ------------------------------
CsvRow(title, author, genre, loc) ==
    [title |-> title, author |-> author, genre |-> genre, default_location |-> loc]

\* the rows typed into the Add Book form and found in uploaded files: a title
\* with trailing blank, the same pair with another genre, the same title with
\* another author, the title in another case, an empty and a blank title
CsvRows ==
    {CsvRow(<<"a", " ">>, <<"x">>, <<"g">>, CompartmentName(1)),
     CsvRow(<<"a">>, <<"x">>, <<"h">>, CompartmentName(2)),
     CsvRow(<<"a">>, <<"y">>, <<"g">>, CompartmentName(1)),
     CsvRow(<<"A">>, <<"x">>, <<"g">>, CompartmentName(1)),
     CsvRow(<<>>, <<"x">>, <<"g">>, CompartmentName(1)),
     CsvRow(<<" ">>, <<"x">>, <<"g">>, CompartmentName(1))}

RECURSIVE SeqsUpTo(_, _)
SeqsUpTo(S, n) ==
    IF n = 0 THEN {<<>>}
    ELSE LET shorter == SeqsUpTo(S, n - 1)
         IN shorter \cup {Append(q, x) : q \in shorter, x \in S}

\* the uploaded files: up to MaxBatch rows
Batches == SeqsUpTo(CsvRows, MaxBatch)

NextCatalog ==
    \/ \E s \in Sessions, r \in CsvRows :
          AddBook(s, r.title, r.author, r.genre, r.default_location)
    \/ \E s \in Sessions, batch \in Batches : Import(s, batch)
    \/ \E s \in Sessions, batch \in Batches : ImportInterrupted(s, batch)

SpecCatalog == Init /\ [][NextCatalog]_vars

\* ------------------------------ import beside circulation ------------------------------
\* uploaded rows: the pair of the circulating book, and the same title by
\* another author
FrameRows ==
    {CsvRow(<<"a", " ">>, <<"x">>, <<"g">>, CompartmentName(1)),
     CsvRow(<<"a">>, <<"y">>, <<"g">>, CompartmentName(1))}

FrameBatches == SeqsUpTo(FrameRows, MaxBatch)

\* the import runs in the session that also issues and returns
FrameSessions == {"s1"}

NextFrame ==
    \/ \E s \in FrameSessions, t \in CircTitles, a \in CircAuthors, g \in CircGenres :
          Len(books) < MaxCircBooks /\ AddBook(s, t, a, g, <<>>)
    \/ \E s \in FrameSessions, n \in MemberNames : members = <<>> /\ AddMember(s, n)
    \/ \E s \in FrameSessions, b \in DOMAIN books, a \in Accessions : AddCopy(s, b, a, <<>>)
    \/ \E s \in FrameSessions, t \in CircTitles, n \in MemberNames, d \in DueChoices :
          ClickIssue(s, t, n, d)
    \/ \E s \in FrameSessions : IssueInsert(s)
    \/ \E s \in FrameSessions, i \in DOMAIN transactions : ClickReturn(s, i)
    \/ \E s \in FrameSessions : MarkReturned(s)
    \/ \E s \in FrameSessions, batch \in FrameBatches : Import(s, batch)

SpecFrame == Init /\ [][NextFrame]_vars

\* ------------------------------ location scenarios ------------------------------
\* the names and descriptions typed into the Add Location form: a seeded name,
\* the same name in lower case, new names (one padded, two differing in case
\* only) and a blank name
LocNames == {CompartmentName(1), <<"c", " ", "1">>, <<" ", "k">>, <<"K">>, <<"b">>, <<" ">>}
LocDescs == {<<"d">>, <<"e", " ">>}

NextLocations ==
    \/ \E s \in Sessions, n \in LocNames, d \in LocDescs : AddLocation(s, n, d)
    \/ \E s \in Sessions : Repair(s)

SpecLocations == Init /\ [][NextLocations]_vars

\* ------------------------------ circulation claims ------------------------------
\* a step in which session s runs the INSERT of its pending Issue
IssueStep(s) == pc[s] = "issue" /\ pc'[s] = "idle"

CopiesOfBook(cs, b) == {c \in DOMAIN cs : cs[c].book_id = b}

\* C1: every title (book_id) has at most one transaction row whose
\* return_date is NULL, in every reachable state.
C1_AtMostOneOpenPerTitle ==
    \A b \in DOMAIN books : Cardinality(OpenOfBook(transactions, b)) <= 1

\* C2: when two sessions issue the same title concurrently (each started while
\* the title had no open entry), the one whose INSERT comes second fails with
\* CopyNotAvailable and the title ends with exactly one open transaction.
C2_ConcurrentIssueOneWins ==
    [][\A s \in Sessions :
          (/\ IssueStep(s)
           /\ pend[s].free
           /\ OpenOfBook(transactions, pend[s].book_id) # {})
          => /\ msg'.text = "CopyNotAvailable"
             /\ Cardinality(OpenOfBook(transactions', pend[s].book_id)) = 1]_vars

\* C3: an Issue requested for a title that already has an open transaction
\* fails with CopyNotAvailable, inserts no row and leaves the ledger unchanged.
C3_IssueOnOpenTitleFails ==
    [][\A s \in Sessions :
          (/\ IssueStep(s)
           /\ ~pend[s].free
           /\ OpenOfBook(transactions, pend[s].book_id) # {})
          => /\ msg'.text = "CopyNotAvailable"
             /\ transactions' = transactions]_vars

\* C4: a copy's status is 'issued' if and only if some transaction row with
\* return_date NULL has that copy as its copy_id.
C4_StatusAgreesWithLedger ==
    \A c \in DOMAIN copies :
        (copies[c].status = "issued")
            <=> (\E t \in DOMAIN transactions :
                    IsOpen(transactions[t]) /\ transactions[t].copy_id = <<c>>)

\* a copy of a book that has been issued (entry still open) and returned once
C4_Witness ==
    \E c \in DOMAIN copies, t1, t2 \in DOMAIN transactions :
        /\ transactions[t1].book_id = copies[c].book_id
        /\ IsOpen(transactions[t1])
        /\ transactions[t2].book_id = copies[c].book_id
        /\ ~IsOpen(transactions[t2])

\* C5: a successful Issue flips, in the same step that inserts the ledger row,
\* the status of a copy of the issued title from 'available' to 'issued'.
C5_IssueFlipsStatus ==
    [][\A s \in Sessions :
          (/\ IssueStep(s)
           /\ Len(transactions') = Len(transactions) + 1
           /\ \E c \in CopiesOfBook(copies, pend[s].book_id) : copies[c].status = "available")
          => \E c \in CopiesOfBook(copies, pend[s].book_id) :
                /\ copies[c].status = "available"
                /\ copies'[c].status = "issued"]_vars

\* C6: a Return on an entry that is already returned fails with
\* AlreadyReturned and leaves the return_date the first Return set.
C6_SecondReturnRejected ==
    [][\A s \in Sessions :
          (MarkReturned(s) /\ ~IsOpen(transactions[pend[s].ret_id]))
          => /\ msg'.text = "AlreadyReturned"
             /\ transactions'[pend[s].ret_id].return_date
                   = transactions[pend[s].ret_id].return_date]_vars

\* C7: Return(entryId) changes nothing but the return_date of the named row:
\* all other rows (open siblings of the same title included) and the books,
\* copies, members and locations tables are as before.
C7_ReturnFrame ==
    [][\A s \in Sessions :
          MarkReturned(s)
          => /\ DOMAIN transactions' = DOMAIN transactions
             /\ \A t \in DOMAIN transactions \ {pend[s].ret_id} :
                   transactions'[t] = transactions[t]
             /\ transactions'[pend[s].ret_id] =
                   [transactions[pend[s].ret_id] EXCEPT
                       !.return_date = transactions'[pend[s].ret_id].return_date]
             /\ books' = books
             /\ copies' = copies
             /\ members' = members
             /\ locations' = locations]_vars

\* a Return has just closed one of two entries of the same title; its sibling is open
C7_Witness ==
    /\ msg.text = "Marked as returned"
    /\ \E t1, t2 \in DOMAIN transactions :
          /\ t1 # t2
          /\ transactions[t1].book_id = transactions[t2].book_id
          /\ ~IsOpen(transactions[t1])
          /\ IsOpen(transactions[t2])

\* ------------------------------ catalogue claims ------------------------------
SameTitleCI(t1, t2) == Lower(t1) = Lower(t2)

\* C8: no two book rows have titles that are equal under case-insensitive
\* comparison, whatever Add Book and import operations have run (an Add Book
\* whose title differs from a stored one only in case stores no second row).
C8_NoCaseInsensitiveDuplicateTitles ==
    \A i, j \in DOMAIN books :
        i < j => ~SameTitleCI(books[i].title, books[j].title)

\* C9: importing one row whose title matches a stored book case-insensitively
\* leaves the number of book rows unchanged and overwrites that book's author,
\* genre and default_location with the row's values.
C9_ImportOverwritesExisting ==
    [][\A s \in Sessions, r \in CsvRows :
          (/\ Import(s, <<r>>)
           /\ \E i \in DOMAIN books : SameTitleCI(books[i].title, Field(r.title)))
          => /\ Len(books') = Len(books)
             /\ \E i \in DOMAIN books :
                   /\ SameTitleCI(books[i].title, Field(r.title))
                   /\ books'[i].author = Field(r.author)
                   /\ books'[i].genre = Field(r.genre)
                   /\ books'[i].default_location = Field(r.default_location)]_vars

\* C10: import is idempotent: from every books table, importing a batch a
\* second time leaves the table exactly as the first import of it did.
C10_ImportIdempotent ==
    \A batch \in Batches :
        LET once == ImportBooks(books, idx_books_title_author, batch)
            idx1 == ImportIndex(books, idx_books_title_author)
        IN ImportBooks(once, idx1, batch) = once

\* after an import, a table holding rows and a batch whose import adds to it
C10_Witness ==
    /\ msg.text = "Imported"
    /\ books # <<>>
    /\ \E batch \in Batches :
          /\ \E i \in DOMAIN batch :
                PairExists(books, Field(batch[i].title), Field(batch[i].author))
          /\ Len(ImportBooks(books, idx_books_title_author, batch)) > Len(books)

\* a CSV title cell that is empty, or blank after trimming
BlankCell(cell) == Strip(cell) = <<>>

\* C11: within one batch the rows are applied in input order, last write wins:
\* after importing two rows that carry the same title, a single stored row has
\* that title and it holds the author, genre and default_location of the later row.
C11_LastRowWins ==
    [][\A s \in Sessions, r1, r2 \in CsvRows :
          (/\ Import(s, <<r1, r2>>)
           /\ msg'.text = "Imported"
           /\ ~BlankCell(r1.title)
           /\ Field(r1.title) = Field(r2.title))
          => \E i \in DOMAIN books' :
                /\ \A j \in DOMAIN books' : books'[j].title = Field(r2.title) => j = i
                /\ books'[i] = ImportRows(<<r2>>)[1]]_vars

\* C12: an import row whose title is empty or blank after trimming is skipped:
\* no row the import adds comes from such a row of the batch.
C12_BlankTitleSkipped ==
    [][\A s \in Sessions, batch \in Batches :
          Import(s, batch)
          => \A i \in (DOMAIN books') \ (DOMAIN books) :
                ~\E k \in DOMAIN batch :
                    /\ BlankCell(batch[k].title)
                    /\ books'[i].title = Field(batch[k].title)]_vars

\* ------------------------------ location claims ------------------------------
RowsNamed(locs, name) == {k \in DOMAIN locs : locs[k].name = name}

\* C13: seeding is idempotent: however often the seeding has run, interleaved
\* with Add Location, there is exactly one row named "Compartment i" for each
\* seeded i, and seeding again with the same or a smaller n changes nothing.
C13_SeedingIdempotent ==
    /\ \A i \in 1..NCompartments :
          Cardinality(RowsNamed(locations, CompartmentName(i))) = 1
    /\ \A n \in 0..NCompartments : ensure_default_locations(locations, n) = locations

\* the seeding has run again after locations were added by hand
C13_Witness ==
    /\ msg.text = "Repair done."
    /\ Len(locations) > NCompartments

\* C14: no two location rows have names equal under case-insensitive
\* comparison (an Add Location whose name collides that way inserts nothing).
C14_NoCaseInsensitiveDuplicateLocations ==
    \A i, j \in DOMAIN locations :
        i < j => Lower(locations[i].name) # Lower(locations[j].name)

\* ------------------------------ circulation claims (continued) ------------------------------
\* C15: an Issue happens only when its book and its member exist: no Issue is
\* under way while there is no book or no member, and every transaction row
\* references a stored book and a stored member.
C15_IssueReferencesExist ==
    /\ \A s \in Sessions :
          pc[s] = "issue" => /\ pend[s].book_id \in DOMAIN books
                             /\ pend[s].member_id \in DOMAIN members
    /\ \A t \in DOMAIN transactions :
          /\ transactions[t].book_id \in DOMAIN books
          /\ transactions[t].member_id \in DOMAIN members
    /\ (books = <<>> \/ members = <<>>) => transactions = <<>>

\* an Issue has just inserted its row
C15_Witness ==
    /\ msg.text = "Issued"
    /\ transactions # <<>>
    /\ IsOpen(transactions[Len(transactions)])

\* C16: a circulation entry is never deleted and is closed at most once: the
\* number of transaction rows never decreases, and a return_date that is set
\* is never cleared and never changes its value.
C16_ClosedAtMostOnce ==
    [][/\ Len(transactions') >= Len(transactions)
       /\ \A t \in DOMAIN transactions :
             ~IsOpen(transactions[t])
             => /\ t \in DOMAIN transactions'
                /\ transactions'[t].return_date = transactions[t].return_date]_vars

\* ------------------------------ import claims (continued) ------------------------------
\* C17: an import writes only the books table: transactions, copies, members
\* and locations are the same after the import as before it (a step either
\* keeps the four tables or is no import).
C17_ImportFrame ==
    [][\/ /\ transactions' = transactions
          /\ copies' = copies
          /\ members' = members
          /\ locations' = locations
       \/ ~\E s \in FrameSessions, batch \in FrameBatches : Import(s, batch)]_vars

\* an import has stored a row while a book of the batch's title is out on
\* loan and has a copy
C17_Witness ==
    /\ msg.text = "Imported"
    /\ Len(books) > MaxCircBooks
    /\ copies # <<>>
    /\ \E t \in DOMAIN transactions : IsOpen(transactions[t])

\* C18: a mutating operation that fails part-way leaves the store exactly as
\* before the call: after an import that failed at any statement (the index
\* cannot be created, or an insert fails) the books and the index on
\* (title, author) are what they were, and no row of the batch was added.
C18_FailedImportLeavesStore ==
    [][\A s \in Sessions, batch \in Batches :
          (\/ Import(s, batch) /\ msg'.text = "IntegrityError"
           \/ ImportInterrupted(s, batch))
          => /\ books' = books
             /\ idx_books_title_author' = idx_books_title_author]_vars

\* C19: once an import has completed successfully (the unique index exists
\* from then on) no two book rows share the same exact (title, author) pair in
\* any later state, whatever Add Book and import operations follow; an Add
\* Book with a pair that is already stored then adds no row.
C19_UniquePairsAfterImport ==
    /\ [](idx_books_title_author => ~HasDuplicatePairs(books))
    /\ [][\A s \in Sessions, r \in CsvRows :
             (/\ idx_books_title_author
              /\ PairExists(books, Strip(r.title), Strip(r.author))
              /\ AddBook(s, r.title, r.author, r.genre, r.default_location))
             => books' = books]_vars

\* after an import, an Add Book of a stored pair has been turned down
C19_Witness ==
    /\ idx_books_title_author
    /\ msg.text = "IntegrityError"
    /\ books # <<>>

====
